---- MODULE Spec2Model ----
(***************************************************************************)
(* Model of App.py, the Streamlit dashboard of the healthcare fraud        *)
(* detection repository.                                                   *)
(*                                                                         *)
(* Streamlit executes the whole script once per user interaction.  One     *)
(* script run is one step of the model (action Run): the two memoized      *)
(* loaders, the sidebar radio, and the if/elif chain that renders one of   *)
(* the five sections.  What survives from one run to the next is the       *)
(* st.cache_data memo of the two loaders; storage (the parquet file, the   *)
(* .npy file, the images under reports/) is the environment.               *)
(***************************************************************************)
EXTENDS Integers, Sequences, FiniteSets, TLC

\* ------------------------------------------------------------------ bounds

\* Largest number of rows of the Feature Table and of the SHAP array.
MaxRows == 2

\* Values the columns of the Feature Table take in the model.
Providers == {"P1", "P2"}
ClaimCounts == {0, 2}
FraudLabels == {0, 1}

\* ------------------------------------------------------- program constants

\* st.sidebar.radio options, in order.
Sections ==
    <<"Overview", "EDA & Feature Insights", "Provider Explorer",
      "Model Explainability", "About/Docs">>

\* Options of the "Filter by Fraud Label" selectbox.
FraudFilters == <<"All", "Fraudulent", "Legitimate">>

\* Options of the feature selectbox.  The table of the model carries one
\* engineered feature column, total_reimb; the other five entries of the
\* source list select columns that are read the same way.
top_feats == <<"total_reimb">>

NoSelection == "None"

\* ---------------------------------------------------------------- helpers

Range(s) == {s[i] : i \in 1..Len(s)}

RECURSIVE SumSeq(_)
SumSeq(s) == IF Len(s) = 0 THEN 0 ELSE Head(s) + SumSeq(Tail(s))

SetMax(S) == CHOOSE m \in S : \A x \in S : x <= m

RECURSIVE Dedup(_, _)
Dedup(s, seen) ==
    IF Len(s) = 0 THEN <<>>
    ELSE IF Head(s) \in seen THEN Dedup(Tail(s), seen)
    ELSE <<Head(s)>> \o Dedup(Tail(s), seen \cup {Head(s)})

\* ------------------------------------------------------------- the storage

\* Index labels a DataFrame read back from parquet can carry: the default
\* RangeIndex 0..n-1, or the labels 1..n a table keeps when its first row was
\* dropped before it was saved (to_parquet stores the index, read_parquet
\* restores it).
IndexLabels(n) == {[i \in 1..n |-> i - 1], [i \in 1..n |-> i]}

\* total_reimb of the row at (1-based) position i: distinct in every row.
Reimb(i) == 100 * i

RowChoices == [Provider : Providers, total_claims : ClaimCounts, PotentialFraud : FraudLabels]

\* The Feature Tables of at most MaxRows rows.  A row is a record of its index
\* label and its columns; Provider values may repeat.
FeatureTables ==
    UNION {
        { [i \in 1..n |->
              [index |-> lab[i],
               Provider |-> c[i].Provider,
               total_claims |-> c[i].total_claims,
               PotentialFraud |-> c[i].PotentialFraud,
               total_reimb |-> Reimb(i)]]
          : c \in [1..n -> RowChoices], lab \in IndexLabels(n) }
        : n \in 0..MaxRows }

\* The SHAP arrays that can sit next to a table of n rows: one attribution
\* score per row, with n rows (well-formed), with none, or with MaxRows rows.
\* Nothing ties the row count of the file to the table's.
ShapArrays(n) == {[i \in 1..k |-> 1] : k \in {n, 0, MaxRows}}

\* The images under reports/: each of the two global plots exists or not, and
\* the per-provider waterfall plots are pre-generated for no index or for
\* index 0 only.
ReportDirs == [bar : BOOLEAN, beeswarm : BOOLEAN, waterfall : {{}, {0}}]

\* What a run finds at the path of a data file: a readable file, or a missing
\* or malformed one.
FileStatus == {"ok", "unavailable"}

\* ------------------------------------------------------------------- state

VARIABLES
    featureFile,  \* content of processed/Feature Table.parquet
    shapFile,     \* content of reports/shap_values_full.npy
    reports,      \* the image files that exist under reports/
    dataCache,    \* memo of load_data: <<>> or <<table>>
    shapCache,    \* memo of load_shap: <<>> or <<array>>
    dataReads,    \* completed executions of the body of load_data
    shapReads,    \* completed executions of the body of load_shap
    features,     \* the global `features` of the latest run: <<>> or <<table>>
    shap_values,  \* the global `shap_values` of the latest run
    section,      \* value of the sidebar radio in the latest run
    widgets,      \* values of the section's widgets in the latest run
    out,          \* what the latest run rendered
    served,       \* how the loader calls of the run in progress were served
    pc            \* "idle" between runs, "loaded" between line 27 and line 30

vars ==
    <<featureFile, shapFile, reports, dataCache, shapCache, dataReads, shapReads,
      features, shap_values, section, widgets, out, served, pc>>

\* ------------------------------------------------------ pandas operations

\* features['Provider'].nunique()
Nunique(t) == Cardinality({t[i].Provider : i \in 1..Len(t)})

\* Series.unique(): the distinct values in order of first appearance.
Unique(t) == Dedup([i \in 1..Len(t) |-> t[i].Provider], {})

\* features['total_claims'].sum()
TotalClaims(t) == SumSeq([i \in 1..Len(t) |-> t[i].total_claims])

\* 100 * features['PotentialFraud'].sum() / len(features), formatted .1f:
\* <<tenths of a percent>>, or <<>> for the nan of an empty table.
PctFraud(t) ==
    IF Len(t) = 0 THEN <<>>
    ELSE LET s == SumSeq([i \in 1..Len(t) |-> t[i].PotentialFraud])
         IN  <<(2000 * s + Len(t)) \div (2 * Len(t))>>

\* DataFrame[...].reset_index(drop=True): the labels become 0..n-1.
ResetIndex(t) == [i \in 1..Len(t) |-> [t[i] EXCEPT !.index = i - 1]]

\* Series.to_dict() of a row: its columns, without the index label.
ToDict(r) ==
    [Provider |-> r.Provider, total_claims |-> r.total_claims,
     total_reimb |-> r.total_reimb, PotentialFraud |-> r.PotentialFraud]

\* row[["total_reimb", ..., "PotentialFraud"]].to_dict()
FeatureValues(r) == [total_reimb |-> r.total_reimb, PotentialFraud |-> r.PotentialFraud]

\* features.index[features["Provider"] == sel_id]: the labels of the matches.
IndexWhere(t, sel_id) ==
    LET m == SelectSeq(t, LAMBDA r : r.Provider = sel_id)
    IN  [i \in 1..Len(m) |-> m[i].index]

\* ------------------------------------------------------------ the loaders

\* st_cache_data without the memo: the body runs on every call.
st_cache_data_NoMemo(cache, status, content) ==
    IF status = "ok" THEN [cache |-> <<content>>, reads |-> 1, how |-> "read"]
    ELSE [cache |-> <<>>, reads |-> 0, how |-> "raised"]

\* st_cache_data around a body that swallows its exception and returns an
\* empty value instead.
st_cache_data_Swallow(cache, status, content) ==
    IF Len(cache) > 0 THEN [cache |-> cache, reads |-> 0, how |-> "memo"]
    ELSE IF status = "ok" THEN [cache |-> <<content>>, reads |-> 1, how |-> "read"]
    ELSE [cache |-> <<<<>>>>, reads |-> 1, how |-> "read"]

\* A function under @st.cache_data, called without arguments: a memo hit
\* returns the stored value; a miss runs the body, which reads the file and
\* raises when it cannot; only a returned value is stored.
st_cache_data(cache, status, content) ==
    IF Len(cache) > 0 THEN [cache |-> cache, reads |-> 0, how |-> "memo"]
    ELSE IF status = "ok" THEN [cache |-> <<content>>, reads |-> 1, how |-> "read"]
    ELSE [cache |-> <<>>, reads |-> 0, how |-> "raised"]

\* --------------------------------------------------------------- the views

Blank(view) ==
    [view |-> view, error |-> "none", warning |-> "none", image |-> "none",
     idx |-> <<>>, metrics |-> <<>>, pct |-> <<>>, table |-> <<>>, chart |-> <<>>,
     options |-> <<>>, json |-> <<>>]

DefaultWidgets ==
    [fraud_filter |-> "All", min_claims |-> 0, feat |-> top_feats[1],
     sel_id |-> NoSelection]

\* The run stopped by an exception of a loader, before the sidebar exists.
LoadFailure == [Blank("none") EXCEPT !.error = "DataUnavailable"]

\* features.iloc[idx]: positional, counted from the end when negative.
IlocInBounds(t, idx) == -Len(t) <= idx /\ idx < Len(t)

Iloc(t, idx) == IF idx >= 0 THEN t[idx + 1] ELSE t[Len(t) + idx + 1]

\* section == "Overview": the metrics over the columns the model carries
\* (providers, claims, fraud rate), then the global bar plot.  st.image raises
\* when the file it is given does not exist.
Overview(t, dir) ==
    LET shown == [Blank("Overview") EXCEPT
                      !.metrics = <<Nunique(t), TotalClaims(t)>>,
                      !.pct = PctFraud(t)]
    IN  IF dir.bar
        THEN [shown EXCEPT !.image = "shap_global_bar_full"]
        ELSE [shown EXCEPT !.error = "MediaFileStorageError"]

\* section == "EDA & Feature Insights": the beeswarm plot, then the bar chart
\* of the selected column.
EDA(t, dir, feat) ==
    IF dir.beeswarm
    THEN [Blank("EDA & Feature Insights") EXCEPT
              !.image = "shap_beeswarm_full",
              !.chart = [i \in 1..Len(t) |-> t[i].total_reimb]]
    ELSE [Blank("EDA & Feature Insights") EXCEPT !.error = "MediaFileStorageError"]

\* RowFilter with a strict threshold comparison.
RowFilterStrict(t, fraud_filter, min_claims) ==
    LET val == IF fraud_filter = "Fraudulent" THEN 1 ELSE 0
        byLabel == IF fraud_filter # "All"
                   THEN SelectSeq(t, LAMBDA r : r.PotentialFraud = val)
                   ELSE t
    IN  SelectSeq(byLabel, LAMBDA r : r.total_claims > min_claims)

\* The row filter of the Provider Explorer (filtered = features.copy(), then
\* the two boolean-mask selections).
RowFilter(t, fraud_filter, min_claims) ==
    LET val == IF fraud_filter = "Fraudulent" THEN 1 ELSE 0
        byLabel == IF fraud_filter # "All"
                   THEN SelectSeq(t, LAMBDA r : r.PotentialFraud = val)
                   ELSE t
    IN  SelectSeq(byLabel, LAMBDA r : r.total_claims >= min_claims)

\* Upper end of the "Minimum Claims" slider: int(features['total_claims'].max()).
\* The max of an empty column is nan, and int(nan) raises ValueError.
SliderMax(t) == SetMax({t[i].total_claims : i \in 1..Len(t)})

\* SelRow looking the provider up in the whole table instead of `filtered`.
SelRowUnfiltered(filtered, sel_id) ==
    SelectSeq(features[1], LAMBDA r : r.Provider = sel_id)[1]

\* filtered[filtered["Provider"] == sel_id].iloc[0]
SelRow(filtered, sel_id) == SelectSeq(filtered, LAMBDA r : r.Provider = sel_id)[1]

\* section == "Provider Explorer"
Explorer(t, w) ==
    IF Len(t) = 0
    THEN [Blank("Provider Explorer") EXCEPT !.error = "ValueError"]
    ELSE LET filtered == RowFilter(t, w.fraud_filter, w.min_claims)
             provider_ids == Unique(filtered)
             shown == [Blank("Provider Explorer") EXCEPT
                           !.table = ResetIndex(filtered),
                           !.options = provider_ids]
         IN  IF Len(provider_ids) = 0
             THEN [shown EXCEPT !.warning = "No providers match filter."]
             ELSE [shown EXCEPT !.json = <<ToDict(SelRow(filtered, w.sel_id))>>]

\* Explainability reading row idx of shap_values before it shows the features.
ExplainabilityReadsShap(t, shap, dir, w) ==
    LET matches == IndexWhere(t, w.sel_id)
        picked == [Blank("Model Explainability") EXCEPT !.options = Unique(t)]
    IN  IF Len(matches) = 0
        THEN [picked EXCEPT !.error = "IndexError"]
        ELSE LET idx == matches[1]
                 shown == IF idx \in dir.waterfall
                          THEN [picked EXCEPT
                                    !.idx = <<idx>>,
                                    !.image = "shap_waterfall_full"]
                          ELSE [picked EXCEPT
                                    !.idx = <<idx>>,
                                    !.warning = "SHAP plot not found for this provider."]
             IN  IF IlocInBounds(t, idx) /\ IlocInBounds(shap, idx)
                 THEN [shown EXCEPT !.json = <<FeatureValues(Iloc(t, idx))>>]
                 ELSE [shown EXCEPT !.error = "IndexError"]

\* section == "Model Explainability".  Nothing in the block reads shap_values.
Explainability(t, shap, dir, w) ==
    LET matches == IndexWhere(t, w.sel_id)
        picked == [Blank("Model Explainability") EXCEPT !.options = Unique(t)]
    IN  IF Len(matches) = 0
        THEN [picked EXCEPT !.error = "IndexError"]
        ELSE LET idx == matches[1]
                 shown == IF idx \in dir.waterfall
                          THEN [picked EXCEPT
                                    !.idx = <<idx>>,
                                    !.image = "shap_waterfall_full"]
                          ELSE [picked EXCEPT
                                    !.idx = <<idx>>,
                                    !.warning = "SHAP plot not found for this provider."]
             IN  IF IlocInBounds(t, idx)
                 THEN [shown EXCEPT !.json = <<FeatureValues(Iloc(t, idx))>>]
                 ELSE [shown EXCEPT !.error = "IndexError"]

\* section == "About/Docs": static text.
About == Blank("About/Docs")

\* The chain with the label of its last branch misspelt.
RenderMissingBranch(sec, t, shap, dir, w) ==
    IF sec = "Overview" THEN Overview(t, dir)
    ELSE IF sec = "EDA & Feature Insights" THEN EDA(t, dir, w.feat)
    ELSE IF sec = "Provider Explorer" THEN Explorer(t, w)
    ELSE IF sec = "Model Explainability" THEN Explainability(t, shap, dir, w)
    ELSE IF sec = "About / Docs" THEN About
    ELSE Blank("none")

\* The if/elif chain over `section`.
Render(sec, t, shap, dir, w) ==
    IF sec = "Overview" THEN Overview(t, dir)
    ELSE IF sec = "EDA & Feature Insights" THEN EDA(t, dir, w.feat)
    ELSE IF sec = "Provider Explorer" THEN Explorer(t, w)
    ELSE IF sec = "Model Explainability" THEN Explainability(t, shap, dir, w)
    ELSE IF sec = "About/Docs" THEN About
    ELSE Blank("none")

\* The widget values a run of section sec can see: each widget returns one of
\* the options it was given (a selectbox without options returns None), and a
\* widget the run does not reach keeps its default.
WidgetValues(sec, t, dir) ==
    IF sec = "EDA & Feature Insights" /\ dir.beeswarm
    THEN {[DefaultWidgets EXCEPT !.feat = f] : f \in Range(top_feats)}
    ELSE IF sec = "Provider Explorer" /\ Len(t) = 0
    THEN {[DefaultWidgets EXCEPT !.fraud_filter = ff] : ff \in Range(FraudFilters)}
    ELSE IF sec = "Provider Explorer"
    THEN UNION {
             LET ids == Unique(RowFilter(t, ff, mc))
                 base == [DefaultWidgets EXCEPT !.fraud_filter = ff, !.min_claims = mc]
             IN  IF Len(ids) = 0 THEN {base}
                 ELSE {[base EXCEPT !.sel_id = id] : id \in Range(ids)}
             : ff \in Range(FraudFilters), mc \in 0..SliderMax(t) }
    ELSE IF sec = "Model Explainability" /\ Len(Unique(t)) > 0
    THEN {[DefaultWidgets EXCEPT !.sel_id = id] : id \in Range(Unique(t))}
    ELSE {DefaultWidgets}

\* FeaturesAfter when the Provider Explorer filters `features` itself.
FeaturesAfterInPlace(sec, t, w) ==
    IF sec = "Provider Explorer" /\ Len(t) > 0
    THEN RowFilter(t, w.fraud_filter, w.min_claims)
    ELSE t

\* The table `features` is bound to once the section's block has run: every
\* block only reads it, and the Provider Explorer filters features.copy().
FeaturesAfter(sec, t, w) == t

\* ------------------------------------------------------------ the machine

NotServed == [data |-> "none", shap |-> "none"]

Init ==
    /\ featureFile \in FeatureTables
    /\ shapFile \in ShapArrays(Len(featureFile))
    /\ reports \in ReportDirs
    /\ dataCache = <<>>
    /\ shapCache = <<>>
    /\ dataReads = 0
    /\ shapReads = 0
    /\ features = <<>>
    /\ shap_values = <<>>
    /\ section = "none"
    /\ widgets = DefaultWidgets
    /\ out = Blank("none")
    /\ served = NotServed
    /\ pc = "idle"

\* Lines 16-27 of a run: features = load_data(), shap_values = load_shap().
\* What the run finds at the two paths is an input: between runs the files
\* can be removed, corrupted or regenerated upstream.  An exception of a
\* loader ends the run; otherwise the run goes on, having rendered nothing yet.
Load ==
    /\ pc = "idle"
    /\ \E ds \in FileStatus, ss \in FileStatus :
        LET d == st_cache_data(dataCache, ds, featureFile)
            s == st_cache_data(shapCache, ss, shapFile)
        IN  /\ dataCache' = d.cache
            /\ dataReads' = dataReads + d.reads
            /\ features' = d.cache
            /\ IF d.how = "raised"
               THEN /\ UNCHANGED <<shapCache, shapReads>>
                    /\ shap_values' = <<>>
               ELSE /\ shapCache' = s.cache
                    /\ shapReads' = shapReads + s.reads
                    /\ shap_values' = s.cache
            /\ section' = "none"
            /\ widgets' = DefaultWidgets
            /\ IF d.how = "raised" \/ s.how = "raised"
               THEN /\ out' = LoadFailure
                    /\ served' = NotServed
                    /\ pc' = "idle"
               ELSE /\ out' = Blank("none")
                    /\ served' = [data |-> d.how, shap |-> s.how]
                    /\ pc' = "loaded"
    /\ UNCHANGED <<featureFile, shapFile, reports>>

\* Lines 30-139 of a run: the sidebar radio and the section it selects.
Dispatch ==
    /\ pc = "loaded"
    /\ \E sec \in Range(Sections) :
           \E w \in WidgetValues(sec, features[1], reports) :
               /\ section' = sec
               /\ widgets' = w
               /\ out' = Render(sec, features[1], shap_values[1], reports, w)
               /\ features' = <<FeaturesAfter(sec, features[1], w)>>
    /\ served' = NotServed
    /\ pc' = "idle"
    /\ UNCHANGED <<featureFile, shapFile, reports, dataCache, shapCache,
                   dataReads, shapReads, shap_values>>

Next == Load \/ Dispatch

Spec == Init /\ [][Next]_vars

\* ------------------------------------------------------------ properties

\* The latest run went through the section dispatch.
Rendered == pc = "idle" /\ section \in Range(Sections)

PassesLabel(r, fraud_filter) ==
    \/ fraud_filter = "All"
    \/ fraud_filter = "Fraudulent" /\ r.PotentialFraud = 1
    \/ fraud_filter = "Legitimate" /\ r.PotentialFraud = 0

\* The positions of the rows of t that pass both predicates.
Kept(t, fraud_filter, min_claims) ==
    {i \in 1..Len(t) : PassesLabel(t[i], fraud_filter) /\ t[i].total_claims >= min_claims}

\* The k-th smallest element of a set of positions.
KthOf(P, k) == CHOOSE i \in P : Cardinality({j \in P : j < i}) = k - 1

\* The position of the first row of t whose Provider is id.
FirstPos(t, id) ==
    CHOOSE i \in 1..Len(t) :
        t[i].Provider = id /\ \A j \in 1..(i - 1) : t[j].Provider # id

HasProvider(t, id) == \E i \in 1..Len(t) : t[i].Provider = id

\* C1: the table the Provider Explorer shows holds exactly the rows of the
\* Feature Table that pass the label filter and have total_claims >= the
\* threshold, in the order of the Feature Table: its k-th row is the k-th row
\* of the table that passes both predicates.
C1_RowFilter ==
    (Rendered /\ section = "Provider Explorer" /\ out.error = "none") =>
        LET P == Kept(featureFile, widgets.fraud_filter, widgets.min_claims)
        IN  /\ Len(out.table) = Cardinality(P)
            /\ \A k \in 1..Len(out.table) :
                   ToDict(out.table[k]) = ToDict(featureFile[KthOf(P, k)])

\* A run of the Provider Explorer in which both predicates are active and
\* remove a row of a two-row table.
C1_Witness ==
    /\ Rendered /\ section = "Provider Explorer"
    /\ widgets.fraud_filter = "Fraudulent" /\ widgets.min_claims = 2
    /\ Len(featureFile) = 2 /\ Len(out.table) = 1

C3_FatalForever ==
    [][out.error = "DataUnavailable" => out'.error = "DataUnavailable"]_vars

\* C3, amended: a run in which a loader fails stops before the navigation and
\* renders no view, the failed call leaves nothing in the memo (so the next
\* run calls the loader again), and a view is rendered only in a run whose
\* two loads returned the content of the files.
C3_FailedRunRendersNothing ==
    /\ out.error = "DataUnavailable" =>
           /\ pc = "idle"
           /\ out = LoadFailure
           /\ section = "none"
           /\ Len(features) = 0 \/ Len(shap_values) = 0
           /\ Len(dataCache) = 0 \/ Len(shapCache) = 0
    /\ out.view # "none" =>
           features = <<featureFile>> /\ shap_values = <<shapFile>>

\* A run in which load_data returned and load_shap raised.
C3_Witness ==
    out.error = "DataUnavailable" /\ Len(features) = 1 /\ Len(shap_values) = 0

\* C4: no run ends in an error other than the failure of a loader (a missing
\* per-provider image is a warning, not an error).
C4_TwoErrorKinds == out.error \in {"none", "DataUnavailable"}

\* C5: for a Provider present in the table, the index the lookup computes is
\* the 0-based position of the first row with that Provider, it is a valid
\* position, and the feature values shown are those of that row.
C5_PositionalLookup ==
    (Rendered /\ section = "Model Explainability"
        /\ HasProvider(featureFile, widgets.sel_id)) =>
        LET p == FirstPos(featureFile, widgets.sel_id)
        IN  /\ out.idx = <<p - 1>>
            /\ out.error = "none"
            /\ out.json = <<FeatureValues(featureFile[p])>>

\* C6: when the image of the computed index is missing the view shows the
\* warning and no image, raises nothing and still shows the feature values of
\* the selected provider; when it exists the image is shown without warning.
C6_NotFoundIsNonFatal ==
    (Rendered /\ section = "Model Explainability" /\ Len(out.idx) = 1) =>
        IF out.idx[1] \in reports.waterfall
        THEN out.image = "shap_waterfall_full" /\ out.warning = "none"
        ELSE /\ out.warning = "SHAP plot not found for this provider."
             /\ out.image = "none"
             /\ out.error = "none"
             /\ out.json =
                    <<FeatureValues(featureFile[FirstPos(featureFile, widgets.sel_id)])>>

\* C7: no step writes to storage, a memo entry never changes once it is made,
\* the section that runs leaves `features` and `shap_values` as load bound
\* them, and `features` is always bound to the table as it was read.
C7_ReadOnly ==
    [][ /\ featureFile' = featureFile
        /\ shapFile' = shapFile
        /\ reports' = reports
        /\ (Len(dataCache) = 1 => dataCache' = dataCache)
        /\ (Len(shapCache) = 1 => shapCache' = shapCache)
        /\ (pc = "loaded" => features' = features /\ shap_values' = shap_values)
        /\ (Len(features') = 1 => features' = <<featureFile>>)
      ]_vars

\* A run of the Provider Explorer whose filter dropped a row, after which
\* `features` is still the whole table.
C7_Witness ==
    /\ Rendered /\ section = "Provider Explorer"
    /\ 0 < Len(out.table) /\ Len(out.table) < Len(featureFile)
    /\ features = <<featureFile>>

\* What a section shows, as a function of the selection, the widget values and
\* the artifacts.
ExpectedView(sec, w, t, shap, dir) ==
    CASE sec = "Overview" -> Overview(t, dir)
      [] sec = "EDA & Feature Insights" -> EDA(t, dir, w.feat)
      [] sec = "Provider Explorer" -> Explorer(t, w)
      [] sec = "Model Explainability" -> Explainability(t, shap, dir, w)
      [] sec = "About/Docs" -> About

\* C8: a run that gets past the loaders renders the one view the radio names,
\* and what it renders is a function of the radio value, the widget values of
\* the run and the artifacts as stored.
C8_StatelessViews ==
    (pc = "idle" /\ Len(shap_values) = 1) =>
        /\ section \in Range(Sections)
        /\ out.view = section
        /\ out = ExpectedView(section, widgets, featureFile, shapFile, reports)

\* A run that rendered the Provider Explorer with the slider moved off its
\* default.
C8_Witness ==
    /\ Rendered /\ section = "Provider Explorer" /\ widgets.min_claims > 0
    /\ out.error = "none"

\* The array a well-formed pair of artifacts would hold for table t.
MatchingArray(t) == [i \in 1..Len(t) |-> 1]

\* C9: whatever array was loaded, the run renders what it would render with
\* an array that has one row per row of the table.
C9_ArrayUnchecked ==
    (pc = "idle" /\ Len(shap_values) = 1) =>
        out = Render(section, featureFile, MatchingArray(featureFile), reports, widgets)

\* The Model Explainability view shows a provider's features while the array
\* has a row count other than the table's.
C9_Witness ==
    /\ Rendered /\ section = "Model Explainability"
    /\ Len(shapFile) # Len(featureFile)
    /\ out.error = "none" /\ Len(out.json) = 1

\* C10: in the drill-down the options are the distinct Provider values of the
\* filtered rows; with no filtered row the warning is shown and nothing is
\* selected or detailed; otherwise the record detailed is the first filtered
\* row with the selected Provider, and it passes the filter and the threshold.
C10_DrillDown ==
    (Rendered /\ section = "Provider Explorer" /\ out.error = "none") =>
        /\ Range(out.options) = {out.table[i].Provider : i \in 1..Len(out.table)}
        /\ Len(out.options) = Cardinality(Range(out.options))
        /\ IF Len(out.table) = 0
           THEN /\ out.warning = "No providers match filter."
                /\ widgets.sel_id = NoSelection
                /\ out.json = <<>>
           ELSE /\ out.warning = "none"
                /\ widgets.sel_id \in Range(out.options)
                /\ out.json = <<ToDict(out.table[FirstPos(out.table, widgets.sel_id)])>>
                /\ PassesLabel(out.json[1], widgets.fraud_filter)
                /\ out.json[1].total_claims >= widgets.min_claims

\* The provider selected appears twice, its first row is filtered out, and
\* the record detailed is its second row.
C10_Witness ==
    /\ Rendered /\ section = "Provider Explorer" /\ Len(out.json) = 1
    /\ out.json[1] # ToDict(featureFile[FirstPos(featureFile, widgets.sel_id)])

====
